---- MODULE Spec2Model ----
(***************************************************************************)
(* rdx: a RESP codec.  Values are encoded by Write / WriteTo (resp.go) and *)
(* decoded by Reader.Read (decode.go).  The repository holds two revisions *)
(* of the encoder:                                                         *)
(*   revision "A": src/resp.go with the padbuf pool (unnamed/part_000,     *)
(*                 lines 1-100);                                           *)
(*   revision "B": unnamed/part_000 lines 102-429 with src/bufpool.go.     *)
(* Bytes are numbers 0..255, byte strings are sequences of bytes, and an   *)
(* int64 is four 16-bit limbs (least significant first) in two's           *)
(* complement, so that every operation wraps exactly as the Go code does.  *)
(***************************************************************************)
EXTENDS Integers, Sequences, FiniteSets, TLC

VARIABLES
    rev,        \* which revision of the encoder is running
    sinkKind,   \* "buffer": the caller's sink is a *bytes.Buffer; "writer": another io.Writer
    sink,       \* the bytes the caller's sink has received
    before,     \* the sink as it was when the last Write began
    wmsg,       \* the value given to the last Write
    wn,         \* the byte count the last Write returned
    werr,       \* the error the last Write returned
    written,    \* the values written so far, in order
    checkedOut, \* pooled buffers acquired and not yet released
    wpool,      \* what the last Write did to the pool: buffers acquired, released, most held at once
    west,       \* estlen of the value given to the last Write
    src,        \* the Reader's byte source
    opened,     \* whether a Reader has been built on the source
    split,      \* whether the source delivers its bytes in more than one read
    reads,      \* the results of the Read calls so far, in order
    nwrites,    \* the number of Write calls so far
    phase       \* "write": the sink is being written; "read": a Reader is open

vars == <<rev, sinkKind, sink, before, wmsg, wn, werr, written, checkedOut,
          wpool, west, src, opened, split, reads, nwrites, phase>>

----------------------------------------------------------------------------
(* Bytes *)

CR == 13
LF == 10
crlf == <<CR, LF>>

Min(a, b) == IF a < b THEN a ELSE b
Max(a, b) == IF a < b THEN b ELSE a

\* bytes.HasSuffix(b, crlf)
HasSuffixCRLF(b) ==
    Len(b) >= 2 /\ b[Len(b) - 1] = CR /\ b[Len(b)] = LF

\* strings.ContainsAny(s, "\r\n")
ContainsCRLF(s) == \E i \in 1..Len(s) : s[i] = CR \/ s[i] = LF

Take(s, k) == SubSeq(s, 1, Min(k, Len(s)))
Drop(s, k) == SubSeq(s, Min(k, Len(s)) + 1, Len(s))
Repeat(b, k) == [i \in 1..k |-> b]

----------------------------------------------------------------------------
(* int64 / uint64 arithmetic on 16-bit limbs, wrapping modulo 2^64 *)

LimbBase == 2^16

Zero64 == <<0, 0, 0, 0>>

\* int64(k) for a small non-negative k
FromNat(k) == <<k % LimbBase, (k \div LimbBase) % LimbBase, 0, 0>>

Add64(a, b) ==
    LET s1 == a[1] + b[1]
        s2 == a[2] + b[2] + (s1 \div LimbBase)
        s3 == a[3] + b[3] + (s2 \div LimbBase)
        s4 == a[4] + b[4] + (s3 \div LimbBase)
    IN  <<s1 % LimbBase, s2 % LimbBase, s3 % LimbBase, s4 % LimbBase>>

Not64(a) == <<LimbBase - 1 - a[1], LimbBase - 1 - a[2],
              LimbBase - 1 - a[3], LimbBase - 1 - a[4]>>

\* -a, wrapping: -MinInt64 = MinInt64
Neg64(a) == Add64(Not64(a), FromNat(1))

\* a * m for a small m, wrapping
MulSmall(a, m) ==
    LET p1 == a[1] * m
        p2 == a[2] * m + (p1 \div LimbBase)
        p3 == a[3] * m + (p2 \div LimbBase)
        p4 == a[4] * m + (p3 \div LimbBase)
    IN  <<p1 % LimbBase, p2 % LimbBase, p3 % LimbBase, p4 % LimbBase>>

IsNeg(a) == a[4] >= LimbBase \div 2

\* a < b as uint64
ULess(a, b) ==
    \/ a[4] < b[4]
    \/ a[4] = b[4] /\ a[3] < b[3]
    \/ a[4] = b[4] /\ a[3] = b[3] /\ a[2] < b[2]
    \/ a[4] = b[4] /\ a[3] = b[3] /\ a[2] = b[2] /\ a[1] < b[1]

\* a < b as int64
SLess(a, b) == IF IsNeg(a) # IsNeg(b) THEN IsNeg(a) ELSE ULess(a, b)

MinInt64 == <<0, 0, 0, LimbBase \div 2>>
MaxInt64 == <<LimbBase - 1, LimbBase - 1, LimbBase - 1, (LimbBase \div 2) - 1>>

\* u / 10 and u % 10 as uint64
DivMod10(u) ==
    LET c4 == u[4]
        c3 == (c4 % 10) * LimbBase + u[3]
        c2 == (c3 % 10) * LimbBase + u[2]
        c1 == (c2 % 10) * LimbBase + u[1]
    IN  [q |-> <<c1 \div 10, c2 \div 10, c3 \div 10, c4 \div 10>>, r |-> c1 % 10]

\* strconv's formatBits in base 10: the decimal digits of a uint64
RECURSIVE FormatBits(_)
FormatBits(u) ==
    IF u[4] = 0 /\ u[3] = 0 /\ u[2] = 0 /\ u[1] < 10
    THEN <<48 + u[1]>>
    ELSE LET d == DivMod10(u) IN FormatBits(d.q) \o <<48 + d.r>>

\* strconv.AppendInt(nil, n, 10)
AppendInt(n) ==
    IF IsNeg(n) THEN <<45>> \o FormatBits(Neg64(n)) ELSE FormatBits(n)

\* 10^k as int64, k <= 18
RECURSIVE Pow10(_)
Pow10(k) == IF k = 0 THEN FromNat(1) ELSE MulSmall(Pow10(k - 1), 10)

----------------------------------------------------------------------------
(* Values (Msg) *)

Msg(t, v, s, a) == [t |-> t, v |-> v, s |-> s, a |-> a]

NilMsg == Msg("Nil", Zero64, <<>>, <<>>)          \* rdx.Nil
Absent == Msg("nil", Zero64, <<>>, <<>>)          \* a nil Msg interface value
IntMsg(v) == Msg("Int", v, <<>>, <<>>)
Error(s) == Msg("Error", Zero64, s, <<>>)
String(s) == Msg("String", Zero64, s, <<>>)
BulkString(s) == Msg("BulkString", Zero64, s, <<>>)
SimpleString(s) == Msg("SimpleString", Zero64, s, <<>>)
\* A float64 of the form (-1)^neg * (whole + half/2): v = <<neg, whole, half, 0>>
Float64(neg, whole, half) == Msg("Float64", <<neg, whole, half, 0>>, <<>>, <<>>)
Array(a) == Msg("Array", Zero64, <<>>, a)

ensure(msg) == IF msg = Absent THEN NilMsg ELSE msg

----------------------------------------------------------------------------
(* Encoder *)

\* The result of one WriteTo call: the bytes that reached w, the returned
\* (n, err), and what the call did to the buffer pool: buffers acquired
\* (tempbuffer), buffers released (putbuffer), and the largest number of
\* buffers the call held at one time.
WResult(out, n, err, acq, rel, peak) ==
    [out |-> out, n |-> n, err |-> err, acq |-> acq, rel |-> rel, peak |-> peak]

\* w.Write(b) / appending straight to the caller's buffer: no pool use
Direct(out, n) == WResult(out, n, "nil", 0, 0, 0)

\* buf := tempbuffer(..); <fill buf>; n, err = buf.WriteTo(w); putbuffer(buf)
Pooled(out) == WResult(out, Len(out), "nil", 1, 1, 1)

\* return 0, err before anything is written
Refused(err) == WResult(<<>>, 0, err, 0, 0, 0)

nilmsgBytes == <<36, 45, 49, CR, LF>>

\* bufpool.go: prefix, decimal digits, CRLF
putint(prefix, n) == <<prefix>> \o AppendInt(n) \o crlf

\* the padbuf pool's putint: decimal digits, CRLF
putint_padbuf(n) == AppendInt(n) \o crlf

\* strconv.AppendFloat(nil, f, 'f', -1, 64) for f = (-1)^neg * (whole + half/2)
AppendFloat(f) ==
    (IF f[1] = 1 THEN <<45>> ELSE <<>>) \o FormatBits(FromNat(f[2]))
        \o (IF f[3] = 1 THEN <<46, 53>> ELSE <<>>)

errorFrame(s) == <<45>> \o s \o crlf

\* Error.WriteTo looking for "\n" only
ErrorWriteTo_LFOnly(e, w, r) ==
    IF \E i \in 1..Len(e.s) : e.s[i] = LF THEN Refused("ErrInvalidError")
    ELSE IF r = "B" /\ w = "buffer" THEN Direct(errorFrame(e.s), Len(e.s) + 3)
    ELSE Pooled(errorFrame(e.s))

ErrorWriteTo(e, w, r) ==
    IF ContainsCRLF(e.s) THEN Refused("ErrInvalidError")
    ELSE IF r = "B" /\ w = "buffer" THEN Direct(errorFrame(e.s), Len(e.s) + 3)
    ELSE Pooled(errorFrame(e.s))

bulkFrame(s, r) ==
    IF r = "A" THEN <<36>> \o putint_padbuf(FromNat(Len(s))) \o s \o crlf
    ELSE putint(36, FromNat(Len(s))) \o s \o crlf

\* String.WriteTo and BulkString.WriteTo
BulkWriteTo(m, w, r) ==
    IF r = "B" /\ w = "buffer"
    THEN Direct(bulkFrame(m.s, r),
                Len(m.s) + Len(putint(36, FromNat(Len(m.s)))) + 2)
    ELSE Pooled(bulkFrame(m.s, r))

simpleFrame(s) == <<43>> \o s \o crlf

SimpleStringWriteTo(m, w, r) ==
    IF ContainsCRLF(m.s) THEN BulkWriteTo(BulkString(m.s), w, r)
    ELSE IF r = "B" /\ w = "buffer" THEN Direct(simpleFrame(m.s), Len(m.s) + 3)
    ELSE Pooled(simpleFrame(m.s))

NilWriteTo(w) == Direct(nilmsgBytes, Len(nilmsgBytes))

intFrame(v, r) == IF r = "A" THEN <<58>> \o putint_padbuf(v) ELSE putint(58, v)

IntWriteTo(m, w, r) == Pooled(intFrame(m.v, r))

\* var tmp = [32]byte{'+'}; b := strconv.AppendFloat(tmp[1:], ...): tmp[1:] is a
\* slice of LENGTH 31, so the text is appended after its 31 zero bytes and
\* tmp[0] is not part of b.
floatBytes(f) == Repeat(0, 31) \o AppendFloat(f) \o crlf

Float64WriteTo(m, w) == Direct(floatBytes(m.v), Len(floatBytes(m.v)))

RECURSIVE WriteTo(_, _, _)
RECURSIVE writeElems(_, _, _, _)
RECURSIVE Array_writeTo(_)

\* for _, m := range a { ... if err != nil { return } }: the elements from
\* index i on, written into the array's buffer
writeElems(a, i, w, r) ==
    IF i > Len(a) THEN Direct(<<>>, 0)
    ELSE LET m == ensure(a[i])
             e == IF r = "B" /\ m.t = "Array" THEN Array_writeTo(m.a)
                  ELSE WriteTo(m, w, r)
         IN  IF e.err # "nil" THEN e
             ELSE LET rest == writeElems(a, i + 1, w, r)
                  IN  WResult(e.out \o rest.out, 0, rest.err, e.acq + rest.acq,
                              e.rel + rest.rel, Max(e.peak, rest.peak))

\* revision B, Array.writeTo(buf): the head and the elements into buf
Array_writeTo(a) ==
    LET body == writeElems(a, 1, "buffer", "B")
    IN  WResult(putint(42, FromNat(Len(a))) \o body.out, 0, body.err,
                body.acq, body.rel, body.peak)

\* Array.WriteTo writing an array without elements as the nil array "*-1"
ArrayWriteTo_A_EmptyAsNil(m, w) ==
    LET head == <<42>> \o putint_padbuf(IF m.a = <<>> THEN Neg64(FromNat(1))
                                        ELSE FromNat(Len(m.a)))
        body == writeElems(m.a, 1, "padbuf", "A")
    IN  IF body.err # "nil"
        THEN WResult(<<>>, 0, body.err, 1 + body.acq, body.rel, 1 + body.peak)
        ELSE WResult(head \o body.out, Len(head \o body.out), "nil",
                     1 + body.acq, 1 + body.rel, 1 + body.peak)

\* revision A, Array.WriteTo: no release on the error return
ArrayWriteTo_A(m, w) ==
    LET head == <<42>> \o putint_padbuf(FromNat(Len(m.a)))
        body == writeElems(m.a, 1, "padbuf", "A")
    IN  IF body.err # "nil"
        THEN WResult(<<>>, 0, body.err, 1 + body.acq, body.rel, 1 + body.peak)
        ELSE WResult(head \o body.out, Len(head \o body.out), "nil",
                     1 + body.acq, 1 + body.rel, 1 + body.peak)

\* revision B, Array.WriteTo: defer putbuffer(buf)
ArrayWriteTo_B(m, w) ==
    LET body == Array_writeTo(m.a)
    IN  IF body.err # "nil"
        THEN WResult(<<>>, 0, body.err, 1 + body.acq, 1 + body.rel, 1 + body.peak)
        ELSE WResult(body.out, Len(body.out), "nil",
                     1 + body.acq, 1 + body.rel, 1 + body.peak)

WriteTo(m, w, r) ==
    CASE m.t = "Nil" -> NilWriteTo(w)
      [] m.t = "Int" -> IntWriteTo(m, w, r)
      [] m.t = "Error" -> ErrorWriteTo(m, w, r)
      [] m.t = "String" -> BulkWriteTo(m, w, r)
      [] m.t = "BulkString" -> BulkWriteTo(m, w, r)
      [] m.t = "SimpleString" -> SimpleStringWriteTo(m, w, r)
      [] m.t = "Float64" -> Float64WriteTo(m, w)
      [] m.t = "Array" -> IF r = "A" THEN ArrayWriteTo_A(m, w) ELSE ArrayWriteTo_B(m, w)

\* func Write(w io.Writer, msg Msg) (n int, err error)
Write(w, msg, r) == WriteTo(ensure(msg), w, r)

\* the switch of intlen: the first case i < 10^k that holds, the default being 19
RECURSIVE intlenCase(_, _)
intlenCase(i, k) ==
    IF k = 19 THEN 19
    ELSE IF SLess(i, Pow10(k)) THEN k
    ELSE intlenCase(i, k + 1)

\* func intlen(i int64) (n int): if i < 0 { n++; i = -i }, then the switch;
\* -i wraps for the minimum int64
intlen(i) ==
    IF IsNeg(i) THEN 1 + intlenCase(Neg64(i), 1) ELSE intlenCase(i, 1)

\* String.estlen, BulkString.estlen and SimpleString.estlen
bulkEstlen(s) == 5 + Len(s) + intlen(FromNat(Len(s)))

RECURSIVE estlen(_)
RECURSIVE sumEstlen(_)

\* for _, m := range a { m = ensure(m); sz += m.estlen() }
sumEstlen(a) ==
    IF a = <<>> THEN 0 ELSE estlen(ensure(Head(a))) + sumEstlen(Tail(a))

\* the estlen method of each type
estlen(m) ==
    CASE m.t = "Nil" -> Len(nilmsgBytes)
      [] m.t = "Int" -> 3 + intlen(m.v)
      [] m.t = "Error" -> 3 + Len(m.s)
      [] m.t = "String" -> bulkEstlen(m.s)
      [] m.t = "BulkString" -> bulkEstlen(m.s)
      [] m.t = "SimpleString" -> bulkEstlen(m.s)
      [] m.t = "Float64" -> 23
      [] m.t = "Array" -> 3 + intlen(FromNat(Len(m.a))) + sumEstlen(m.a)

----------------------------------------------------------------------------
(* Byte sources *)

\* bufio's defaultBufSize: NewReader wraps a plain io.Reader in bufio.NewReader(r)
defaultBufSize == 4096

\* A source is [kind, rbuf, under, end]:
\*   kind  "buffer": a *bytes.Buffer, used as it is (it is a bytesReader);
\*         "bufio" : a bufio.Reader around a plain io.Reader;
\*   rbuf  the bytes held in memory and not yet consumed;
\*   under the underlying io.Reader: the chunks its coming Read calls deliver;
\*   end   the error the underlying reader returns once the chunks are used up.
Source(kind, rbuf, under, end) ==
    [kind |-> kind, rbuf |-> rbuf, under |-> under, end |-> end]

RECURSIVE SumLen(_)
SumLen(chunks) == IF chunks = <<>> THEN 0 ELSE Len(Head(chunks)) + SumLen(Tail(chunks))

\* the bytes the source has still to deliver
Remaining(s) == Len(s.rbuf) + SumLen(s.under)

\* bytes.IndexByte(b, '\n') + 1, or 0
IndexLF(b) ==
    LET at == {i \in 1..Len(b) : b[i] = LF}
    IN  IF at = {} THEN 0 ELSE CHOOSE i \in at : \A j \in at : i <= j

\* one Read of the underlying reader into k free bytes
underRead(s, k) ==
    LET c == Head(s.under)
        n == Min(k, Len(c))
    IN  [got |-> Take(c, n),
         under |-> IF n = Len(c) THEN Tail(s.under) ELSE <<Drop(c, n)>> \o Tail(s.under)]

\* (*bufio.Reader).ReadBytes('\n') / (*bytes.Buffer).ReadBytes('\n'): `acc`
\* is what earlier full buffers have handed over
RECURSIVE sourceReadBytes(_, _)
sourceReadBytes(acc, s) ==
    LET i == IndexLF(s.rbuf)
    IN  IF i > 0
        THEN [line |-> acc \o Take(s.rbuf, i), err |-> "nil",
              src |-> [s EXCEPT !.rbuf = Drop(s.rbuf, i)]]
        ELSE IF s.under = <<>>
        THEN [line |-> acc \o s.rbuf, err |-> s.end, src |-> [s EXCEPT !.rbuf = <<>>]]
        ELSE IF Len(s.rbuf) >= defaultBufSize
        THEN sourceReadBytes(acc \o s.rbuf, [s EXCEPT !.rbuf = <<>>])
        ELSE LET u == underRead(s, defaultBufSize - Len(s.rbuf))
             IN  sourceReadBytes(acc, [s EXCEPT !.rbuf = s.rbuf \o u.got, !.under = u.under])

\* r.r.Read(buf) with len(buf) = k: ONE read, which may return fewer than k
\* bytes; its count and error are dropped by the caller
sourceRead(s, k) ==
    IF s.rbuf # <<>>
    THEN [got |-> Take(s.rbuf, k), src |-> [s EXCEPT !.rbuf = Drop(s.rbuf, k)]]
    ELSE IF s.under = <<>>
    THEN [got |-> <<>>, src |-> s]
    ELSE IF k >= defaultBufSize
    THEN LET u == underRead(s, k) IN [got |-> u.got, src |-> [s EXCEPT !.under = u.under]]
    ELSE LET u == underRead(s, defaultBufSize)
         IN  [got |-> Take(u.got, k),
              src |-> [s EXCEPT !.rbuf = Drop(u.got, k), !.under = u.under]]

----------------------------------------------------------------------------
(* Decoder *)

RECURSIVE parseDigits(_, _, _, _)
parseDigits(b, i, n, sc) ==
    IF i > Len(b) THEN [n |-> n, err |-> "nil"]
    ELSE IF b[i] < 48 \/ b[i] > 57 THEN [n |-> Zero64, err |-> "ErrInvalidInt"]
    ELSE LET d == FromNat(b[i] - 48)
             m == Add64(MulSmall(n, 10), IF sc = 1 THEN d ELSE Neg64(d))
         IN  IF (sc = 1 /\ SLess(m, n)) \/ (sc = -1 /\ SLess(n, m))
             THEN [n |-> Zero64, err |-> "ErrIntRange"]
             ELSE parseDigits(b, i + 1, m, sc)

\* parseInt without the sign handling of lines 57-60
parseInt_NoSign(b) == parseDigits(b, 1, Zero64, 1)

\* func parseInt(b []byte) (n int64, err error); b is never empty here
parseInt(b) ==
    IF b[1] = 45 THEN parseDigits(b, 2, Zero64, -1) ELSE parseDigits(b, 1, Zero64, 1)

readInt(head) ==
    IF Len(head) = 3 THEN [n |-> Zero64, err |-> "ErrEmptyInt"]
    ELSE parseInt(SubSeq(head, 2, Len(head) - 2))

\* The result of one Read: the value (Absent for Go's nil), the error, the
\* source afterwards, and where, if anywhere, the source ran out of bytes
\* during the call ("head": in a head line; "bulk": in a bulk payload).
RResult(msg, err, s, ranOut) == [msg |-> msg, err |-> err, src |-> s, ranOut |-> ranOut]

MinusOne == Neg64(FromNat(1))

\* make([]byte, n) and make([]Msg, n) succeed for the sizes a process can hold
\* (taken here as n < 2^30) and otherwise end the call with a panic or an
\* out-of-memory failure.
Allocates(n) == n[4] = 0 /\ n[3] = 0 /\ n[2] < 2^14
ToNat(n) == n[2] * LimbBase + n[1]

lengthErr(err) == IF err = "ErrInvalidInt" THEN "ErrInvalidLength" ELSE err

\* bytes.HasSuffix(buf, crlf) for buf := make([]byte, size) holding `got`
\* followed by the zero bytes the read did not overwrite
filledHasSuffixCRLF(got, size) == Len(got) = size /\ HasSuffixCRLF(got)

readBulkString(head, s) ==
    LET len == readInt(head)
    IN  IF len.err # "nil" THEN RResult(Absent, lengthErr(len.err), s, "none")
        ELSE IF len.n = MinusOne THEN RResult(NilMsg, "nil", s, "none")
        ELSE IF IsNeg(len.n) THEN RResult(Absent, "ErrInvalidLength", s, "none")
        ELSE IF ~Allocates(len.n) THEN RResult(Absent, "panic", s, "none")
        ELSE LET size == ToNat(len.n) + 2
                 rd == sourceRead(s, size)
                 ran == IF Remaining(s) < size THEN "bulk" ELSE "none"
             IN  IF ~filledHasSuffixCRLF(rd.got, size)
                 THEN RResult(Absent, "ErrMissingCRLF", rd.src, ran)
                 ELSE RResult(String(Take(rd.got, size - 2)), "nil", rd.src, ran)

readSimpleString(head, s) ==
    RResult(String(SubSeq(head, 2, Len(head) - 2)), "nil", s, "none")

readError(head, s) ==
    RResult(Error(SubSeq(head, 2, Len(head) - 2)), "nil", s, "none")

RECURSIVE Read(_)
RECURSIVE readElems(_, _, _)

\* for i := range ary { ary[i], err = r.Read(); if err != nil { return nil, err } }
readElems(s, k, ary) ==
    IF k = 0 THEN RResult(Array(ary), "nil", s, "none")
    ELSE LET e == Read(s)
         IN  IF e.err # "nil" THEN RResult(Absent, e.err, e.src, e.ranOut)
             ELSE readElems(e.src, k - 1, Append(ary, e.msg))

readArray(head, s) ==
    LET len == readInt(head)
    IN  IF len.err # "nil" THEN RResult(Absent, lengthErr(len.err), s, "none")
        ELSE IF len.n = MinusOne THEN RResult(NilMsg, "nil", s, "none")
        ELSE IF IsNeg(len.n) THEN RResult(Absent, "ErrInvalidLength", s, "none")
        ELSE IF len.n = Zero64 THEN RResult(Array(<<>>), "nil", s, "none")
        ELSE IF ~Allocates(len.n) THEN RResult(Absent, "panic", s, "none")
        ELSE readElems(s, ToNat(len.n), <<>>)

readIntFrame(head, s) ==
    LET val == readInt(head)
    IN  IF val.err # "nil" THEN RResult(Absent, val.err, s, "none")
        ELSE RResult(IntMsg(val.n), "nil", s, "none")

\* Read testing the head line's terminator before the source's error
Read_SuffixFirst(s) ==
    LET h == sourceReadBytes(<<>>, s)
        head == h.line
    IN  IF ~HasSuffixCRLF(head) THEN RResult(Absent, "ErrMissingCRLF", h.src, "head")
        ELSE IF h.err # "nil" THEN RResult(Absent, h.err, h.src, "head")
        ELSE IF Len(head) = 2 THEN RResult(Absent, "ErrMissingPrefix", h.src, "none")
        ELSE CASE head[1] = 45 -> readError(head, h.src)
               [] head[1] = 43 -> readSimpleString(head, h.src)
               [] head[1] = 58 -> readIntFrame(head, h.src)
               [] head[1] = 36 -> readBulkString(head, h.src)
               [] head[1] = 42 -> readArray(head, h.src)
               [] OTHER -> RResult(Absent, "InvalidPrefixError", h.src, "none")

\* func (r *Reader) Read() (Msg, error)
Read(s) ==
    LET h == sourceReadBytes(<<>>, s)
        head == h.line
    IN  IF h.err # "nil" THEN RResult(Absent, h.err, h.src, "head")
        ELSE IF ~HasSuffixCRLF(head) THEN RResult(Absent, "ErrMissingCRLF", h.src, "none")
        ELSE IF Len(head) = 2 THEN RResult(Absent, "ErrMissingPrefix", h.src, "none")
        ELSE CASE head[1] = 45 -> readError(head, h.src)
               [] head[1] = 43 -> readSimpleString(head, h.src)
               [] head[1] = 58 -> readIntFrame(head, h.src)
               [] head[1] = 36 -> readBulkString(head, h.src)
               [] head[1] = 42 -> readArray(head, h.src)
               [] OTHER -> RResult(Absent, "InvalidPrefixError", h.src, "none")

----------------------------------------------------------------------------
(* Bounds and input sets *)

MaxDelta == 2      \* integers within MaxDelta of each boundary value
MaxStrLen == 2     \* short byte strings
MaxSplits == 2     \* places where a source splits its bytes
MaxSplitAt == 12   \* the splits fall within the first MaxSplitAt bytes
MaxElems == 2      \* elements of an array
MaxDepth == 2      \* nesting depth of arrays
MaxFrames == 2     \* frames written to one stream
MaxZeros == 18     \* trailing zeros of a digit field

Revisions == {"A", "B"}
SinkKinds == {"buffer", "writer"}

Seqs(S, n) == UNION {[1..k -> S] : k \in 0..n}

Deltas == UNION {{FromNat(k), Neg64(FromNat(k))} : k \in 0..MaxDelta}
IntBases ==
    {Zero64, MinInt64, MaxInt64}
        \cup UNION {{Pow10(j), Neg64(Pow10(j))} : j \in 0..18}
\* int64 values at and around 0, the two ends of the range and every power of ten
IntSamples == {Add64(b, d) : b \in IntBases, d \in Deltas}

----------------------------------------------------------------------------
(* The state machine *)

\* the state before any call, with s already in the caller's sink
InitSink(s) ==
    /\ rev \in Revisions
    /\ sinkKind \in SinkKinds
    /\ sink = s
    /\ before = s
    /\ wmsg = Absent
    /\ wn = 0
    /\ werr = "nil"
    /\ written = <<>>
    /\ checkedOut = 0
    /\ wpool = [acq |-> 0, rel |-> 0, peak |-> 0]
    /\ west = 0
    /\ src = Source("buffer", <<>>, <<>>, "EOF")
    /\ opened = FALSE
    /\ split = FALSE
    /\ reads = <<>>
    /\ nwrites = 0
    /\ phase = "write"

Init == InitSink(<<>>)

\* n, err := rdx.Write(w, m)
DoWrite(m) ==
    LET r == Write(sinkKind, m, rev)
    IN  /\ phase = "write"
        /\ before' = sink
        /\ sink' = sink \o r.out
        /\ wmsg' = m
        /\ wn' = r.n
        /\ werr' = r.err
        /\ written' = IF r.err = "nil" THEN Append(written, m) ELSE written
        /\ checkedOut' = checkedOut + r.acq - r.rel
        /\ wpool' = [acq |-> r.acq, rel |-> r.rel, peak |-> r.peak]
        /\ west' = estlen(ensure(m))
        /\ nwrites' = nwrites + 1
        /\ UNCHANGED <<rev, sinkKind, src, opened, split, reads, phase>>

\* a peer puts raw bytes on the stream
Inject(b) ==
    /\ phase = "write"
    /\ sink' = sink \o b
    /\ before' = sink
    /\ UNCHANGED <<rev, sinkKind, wmsg, wn, werr, written, checkedOut, wpool, west,
                   src, opened, split, reads, nwrites, phase>>

\* the pieces of data between the split points P, from index `from` on
RECURSIVE Cut(_, _, _)
Cut(data, P, from) ==
    IF P = {} THEN <<SubSeq(data, from, Len(data))>>
    ELSE LET p == CHOOSE x \in P : \A y \in P : x <= y
         IN  <<SubSeq(data, from, p)>> \o Cut(data, P \ {p}, p + 1)

SplitSets(n, k) ==
    {P \in SUBSET (1..Min(n - 1, MaxSplitAt)) : Cardinality(P) <= k}

\* rdx.NewReader(r) on a source that delivers the first `cut` bytes of the
\* stream: a *bytes.Buffer holding them, or a plain reader (wrapped in bufio)
\* that hands them over in the pieces P cuts them into and then returns `end`
Open(kind, cut, P, end) ==
    LET data == Take(sink, cut)
    IN  /\ phase = "write"
        /\ phase' = "read"
        /\ opened' = TRUE
        /\ split' = (P # {})
        /\ src' = IF kind = "buffer" THEN Source("buffer", data, <<>>, "EOF")
                  ELSE Source("bufio", <<>>,
                              IF data = <<>> THEN <<>> ELSE Cut(data, P, 1), end)
        /\ UNCHANGED <<rev, sinkKind, sink, before, wmsg, wn, werr, written,
                       checkedOut, wpool, west, reads, nwrites>>

\* a source that holds the whole stream
OpenWhole ==
    /\ sink # <<>>
    /\ \E kind \in {"buffer", "bufio"} : Open(kind, Len(sink), {}, "EOF")

\* msg, err := r.Read()
DoRead ==
    LET r == Read(src)
    IN  /\ phase = "read"
        /\ src' = r.src
        /\ reads' = Append(reads, [msg |-> r.msg, err |-> r.err, ranOut |-> r.ranOut,
                                  left |-> Remaining(r.src)])
        /\ UNCHANGED <<rev, sinkKind, sink, before, wmsg, wn, werr, written,
                       checkedOut, wpool, west, opened, split, nwrites, phase>>

ReadOne == reads = <<>> /\ DoRead

----------------------------------------------------------------------------
(* Integers: encode, then decode *)

WriteInt == \E v \in IntSamples : nwrites = 0 /\ DoWrite(IntMsg(v))

NextInt == WriteInt \/ OpenWhole \/ ReadOne

SpecInt == Init /\ [][NextInt]_vars

\* C1: for every int64 v, the minimum and the maximum included, decoding the
\* bytes that encoding Int(v) produced returns Int(v) and no error.
C1_IntRoundTrip ==
    (phase = "read" /\ Len(reads) = 1 /\ wmsg.t = "Int")
        => (reads[1].msg = wmsg /\ reads[1].err = "nil")

C1_Witness ==
    /\ Len(reads) = 1
    /\ wmsg = IntMsg(MinInt64)
    /\ reads[1].msg = IntMsg(MinInt64)
    /\ src.kind = "bufio"

----------------------------------------------------------------------------
(* Integer and length fields: raw frames, decoded *)

TwoDigits == {<<48 + a, 48 + b>> : a \in 1..9, b \in 0..9}

\* digit strings: two significant digits and up to MaxZeros zeros, the
\* decimal forms of the values around 2^63, and some short ones
Magnitudes ==
    {h \o Repeat(48, z) : h \in TwoDigits, z \in (MaxZeros - 2)..MaxZeros}
        \cup {FormatBits(Add64(MinInt64, d)) : d \in Deltas}
        \cup {<<48>>, <<55>>, <<48, 48, 55>>}

Fields ==
    Magnitudes
        \cup {<<45>> \o m : m \in Magnitudes}
        \cup {<<>>, <<45>>, <<102>>, <<48, 120, 102, 102>>, <<45, 45>>, <<43, 53>>, <<49, 45>>}

InjectField ==
    \E prefix \in {58, 36, 42}, f \in Fields :
        sink = <<>> /\ Inject(<<prefix>> \o f \o crlf)

NextField == InjectField \/ OpenWhole \/ ReadOne

\* nothing is encoded here: the encoder's revision and the sink's kind are fixed
InitWire == Init /\ rev = "A" /\ sinkKind = "writer"

SpecField == InitWire /\ [][NextField]_vars

\* what stands between the type prefix and the CRLF of the injected frame
FieldOf(frame) == SubSeq(frame, 2, Len(frame) - 2)

IsDigits(b) == b # <<>> /\ \A i \in 1..Len(b) : b[i] >= 48 /\ b[i] <= 57

RECURSIVE StripZeros(_)
StripZeros(b) == IF Len(b) > 1 /\ b[1] = 48 THEN StripZeros(Tail(b)) ELSE b

\* a < b for decimal digit strings without leading zeros
DecLess(a, b) ==
    \/ Len(a) < Len(b)
    \/ /\ Len(a) = Len(b)
       /\ \E i \in 1..Len(a) : a[i] < b[i] /\ \A j \in 1..(i - 1) : a[j] = b[j]

\* "9223372036854775807" and "9223372036854775808"
MaxInt64Digits == <<57, 50, 50, 51, 51, 55, 50, 48, 51, 54, 56, 53, 52, 55, 55, 53, 56, 48, 55>>
MinInt64Digits == <<57, 50, 50, 51, 51, 55, 50, 48, 51, 54, 56, 53, 52, 55, 55, 53, 56, 48, 56>>

\* the field is a decimal number, and that number is not an int64
OutOfRange(f) ==
    IF f # <<>> /\ f[1] = 45
    THEN IsDigits(Tail(f)) /\ DecLess(MinInt64Digits, StripZeros(Tail(f)))
    ELSE IsDigits(f) /\ DecLess(MaxInt64Digits, StripZeros(f))

\* C2: a digit string (with an optional leading '-') in an integer frame or a
\* length field whose value lies outside the int64 range makes Read fail with
\* ErrIntRange; no wrapped-around integer is ever returned.
C2_OutOfRangeRejected ==
    (Len(reads) = 1 /\ OutOfRange(FieldOf(sink)))
        => (reads[1].err = "ErrIntRange" /\ reads[1].msg = Absent)

\* C9: an integer frame or length field without any digit, the field that is
\* only a '-' included, makes Read fail with ErrEmptyInt and return no value.
C9_NoDigitRejected ==
    (Len(reads) = 1 /\ FieldOf(sink) \in {<<>>, <<45>>})
        => (reads[1].err = "ErrEmptyInt" /\ reads[1].msg = Absent)

----------------------------------------------------------------------------
(* Bulk strings: encode, then decode from a source that may split its bytes *)

ByteSamples == {0, CR, LF, 97}

\* a string whose frame fills bufio's buffer exactly, and one a byte longer
LongStrings == {Repeat(97, defaultBufSize - 9), Repeat(97, defaultBufSize - 8)}

ShortStrings == Seqs(ByteSamples, MaxStrLen)

StrSamples == ShortStrings \cup LongStrings

WriteStr == \E s \in StrSamples : nwrites = 0 /\ DoWrite(String(s))

NextWhole == WriteStr \/ OpenWhole \/ ReadOne

\* strings of every sampled length, read back from sources that hold the whole frame
SpecWhole == Init /\ [][NextWhole]_vars

WriteShortStr == \E s \in ShortStrings : nwrites = 0 /\ DoWrite(String(s))

\* a source that holds the whole stream and delivers it in up to MaxSplits + 1 reads
OpenSplit ==
    /\ sink # <<>>
    /\ \E P \in SplitSets(Len(sink), MaxSplits) : Open("bufio", Len(sink), P, "EOF")

NextStr == WriteShortStr \/ OpenWhole \/ OpenSplit \/ ReadOne

\* short strings, read back from sources that split the frame
SpecStr == Init /\ [][NextStr]_vars

\* C3: for every byte string s, the empty one and those with arbitrary bytes
\* included, decoding the bytes that encoding String(s) produced, from a
\* source that holds the whole frame, returns String(s) and no error.
C3_StringRoundTrip ==
    (Len(reads) = 1 /\ wmsg.t = "String" /\ ~split)
        => (reads[1].msg = wmsg /\ reads[1].err = "nil")

\* C10: after a bulk head line with length L the decoder consumes exactly
\* L+2 more bytes however the source splits them: a well-formed frame
\* delivered in several pieces decodes to the same String as in one piece,
\* and the cursor ends just past the frame.
C10_SplitBulkDecodes ==
    (Len(reads) = 1 /\ wmsg.t = "String")
        => (reads[1].msg = wmsg /\ reads[1].err = "nil" /\ reads[1].left = 0)

----------------------------------------------------------------------------
(* Encoding values of every variant *)

Leaves ==
    {Absent, NilMsg, IntMsg(Neg64(FromNat(12345))), Error(<<97>>), Error(<<CR>>),
     Error(<<97, LF, 98>>), String(<<120>>), SimpleString(<<LF>>), Float64(1, 2, 1)}

\* the values that arrays are nested around
Core == {Absent, IntMsg(Neg64(FromNat(12345))), Error(<<CR>>)}

\* a core value, alone or inside up to d arrays of one element; the empty array
RECURSIVE Nest(_)
Nest(d) ==
    IF d = 0 THEN Core
    ELSE Core \cup {Array(<<>>)} \cup {Array(<<x>>) : x \in Nest(d - 1)}

EncSamples ==
    Leaves \cup {Float64(0, 0, 0), Float64(0, 17, 0), BulkString(<<98, CR>>)}
        \cup {Array(a) : a \in Seqs(Leaves \cup Nest(MaxDepth - 1), MaxElems)}

\* what the caller's sink holds before the call: nothing, or "+OK\r\n"
PriorSinks == {<<>>, simpleFrame(<<79, 75>>)}

InitEnc == \E s \in PriorSinks : InitSink(s)

WriteAny == \E m \in EncSamples : nwrites = 0 /\ DoWrite(m)

NextEnc == WriteAny

SpecEnc == InitEnc /\ [][NextEnc]_vars

\* an Error whose text holds '\r' or '\n', or an Array holding one at any depth
RECURSIVE HasBadError(_)
HasBadError(m) ==
    \/ m.t = "Error" /\ ContainsCRLF(m.s)
    \/ m.t = "Array" /\ \E i \in 1..Len(m.a) : HasBadError(m.a[i])

\* C4: encoding an Error whose text holds '\r' or '\n', or an Array that holds
\* such an Error at any position and depth, fails with ErrInvalidError,
\* returns the byte count 0 and leaves the caller's sink as it was.
C4_BadErrorRefused ==
    (nwrites = 1 /\ HasBadError(wmsg))
        => (werr = "ErrInvalidError" /\ wn = 0 /\ sink = before)

C4_Witness ==
    /\ nwrites = 1
    /\ wmsg = Array(<<String(<<120>>), Array(<<Error(<<CR>>)>>)>>)
    /\ werr = "ErrInvalidError"
    /\ before # <<>>
    /\ sink = before

RECURSIVE Decimal(_)
Decimal(k) == IF k < 10 THEN <<48 + k>> ELSE Decimal(k \div 10) \o <<48 + (k % 10)>>

\* the frame of one element: "$-1\r\n" for an absent one, and otherwise what
\* writing that element alone produces
ElemFrame(m) == IF m = Absent THEN <<36, 45, 49, 13, 10>> ELSE Write("writer", m, rev).out

RECURSIVE ElemFrames(_)
ElemFrames(a) == IF a = <<>> THEN <<>> ELSE ElemFrame(Head(a)) \o ElemFrames(Tail(a))

\* C6: encoding an Array a writes exactly '*', the decimal len(a), CRLF and
\* then the full frame of each element in index order (an absent element as
\* "$-1\r\n"); an array without elements is written as "*0\r\n".
C6_ArrayFrame ==
    (nwrites = 1 /\ wmsg.t = "Array" /\ werr = "nil")
        => /\ sink = before \o <<42>> \o Decimal(Len(wmsg.a)) \o crlf \o ElemFrames(wmsg.a)
           /\ wn = Len(sink) - Len(before)
           /\ wmsg.a = <<>> => sink = before \o <<42, 48, 13, 10>>

C6_Witness ==
    /\ nwrites = 1
    /\ wmsg = Array(<<Absent, Array(<<IntMsg(Neg64(FromNat(12345)))>>)>>)
    /\ werr = "nil"
    /\ sink = before \o <<42, 50, 13, 10, 36, 45, 49, 13, 10, 42, 49, 13, 10,
                          58, 45, 49, 50, 51, 52, 53, 13, 10>>

\* C8: encoding a Float writes exactly '+', the decimal text of the float and
\* CRLF, and no other byte.
C8_FloatFrame ==
    (nwrites = 1 /\ wmsg.t = "Float64")
        => sink = before \o <<43>> \o AppendFloat(wmsg.v) \o crlf

----------------------------------------------------------------------------
(* A source that ends, or fails, before the frame is complete *)

CutSamples ==
    {NilMsg, IntMsg(FromNat(123)), Error(<<101>>), String(<<>>), String(<<97, LF>>),
     Array(<<IntMsg(FromNat(123)), String(<<120>>)>>)}

WriteCut == \E m \in CutSamples : nwrites = 0 /\ DoWrite(m)

\* a *bytes.Buffer that holds the first `cut` bytes and then reports io.EOF
OpenCutBuffer ==
    /\ sink # <<>>
    /\ \E cut \in 0..Len(sink) : Open("buffer", cut, {}, "EOF")

\* a plain reader that delivers the first `cut` bytes, in one or two reads,
\* and then ends (io.EOF) or fails (io.ErrClosedPipe)
OpenCutReader ==
    /\ sink # <<>>
    /\ \E cut \in 0..Len(sink), end \in {"EOF", "ErrClosedPipe"} :
           \E P \in SplitSets(cut, 1) : Open("bufio", cut, P, end)

ReadTwice == Len(reads) < 2 /\ DoRead

NextCut == WriteCut \/ OpenCutBuffer \/ OpenCutReader \/ ReadTwice

SpecCut == Init /\ [][NextCut]_vars

\* C5 as claimed: whenever the source ends or fails during a Read (in the head
\* line, in a bulk string's payload and terminator, or in an array's remaining
\* elements), Read returns the source's own error, never a framing error.
C5_SourceErrorVerbatim ==
    \A i \in 1..Len(reads) :
        reads[i].ranOut # "none" => (reads[i].err = src.end /\ reads[i].msg = Absent)

\* C5 as amended: when the source ends or fails in a head line (the frame's
\* own or an array element's), Read returns the source's own error; when it
\* ends or fails in a bulk string's payload or terminator, Read returns
\* ErrMissingCRLF.  No value is returned either way.
C5_SourceErrorByPlace ==
    \A i \in 1..Len(reads) :
        /\ reads[i].ranOut = "head" => reads[i].err = src.end
        /\ reads[i].ranOut = "bulk" => reads[i].err = "ErrMissingCRLF"
        /\ reads[i].ranOut # "none" => reads[i].msg = Absent

C5_Witness ==
    /\ Len(reads) = 2
    /\ src.end = "ErrClosedPipe"
    /\ reads[1].ranOut = "bulk" /\ reads[1].err = "ErrMissingCRLF"
    /\ reads[2].ranOut = "head" /\ reads[2].err = "ErrClosedPipe"
    /\ wmsg.t = "Array"

----------------------------------------------------------------------------
(* Several frames on one stream *)

SeqSamples ==
    {NilMsg, IntMsg(FromNat(7)), Error(<<101>>), String(<<>>), String(<<97, LF>>),
     Array(<<>>), Array(<<IntMsg(FromNat(7)), Array(<<String(<<120>>), NilMsg>>)>>),
     String(Repeat(97, defaultBufSize - 9))}

WriteFrame == \E m \in SeqSamples : nwrites < MaxFrames /\ DoWrite(m)

\* one Read per frame, and one more
ReadNext == Len(reads) <= Len(written) /\ DoRead

NextSeq == WriteFrame \/ OpenWhole \/ ReadNext

SpecSeq == Init /\ [][NextSeq]_vars

FrameLen(m) == Len(Write("writer", m, rev).out)

RECURSIVE FramesLen(_, _)
FramesLen(ms, k) == IF k = 0 THEN 0 ELSE FramesLen(ms, k - 1) + FrameLen(ms[k])

\* C7: when a source holds the frames of v1..vn, n successive Reads return
\* v1..vn in that order, each consuming exactly the bytes of one frame, and
\* the Read after the last frame reports the end of the stream.
C7_FramesInOrder ==
    \A i \in 1..Len(reads) :
        IF i <= Len(written)
        THEN /\ reads[i].msg = written[i]
             /\ reads[i].err = "nil"
             /\ reads[i].left = Len(sink) - FramesLen(written, i)
        ELSE reads[i].err = "EOF" /\ reads[i].msg = Absent

----------------------------------------------------------------------------
(* The buffer pool over a sequence of encode calls *)

PoolSamples ==
    {NilMsg, IntMsg(FromNat(7)), Error(<<97>>), Error(<<CR>>), String(<<120>>),
     SimpleString(<<79, 75>>), Float64(0, 0, 0), Array(<<>>),
     Array(<<Absent, NilMsg>>),
     Array(<<IntMsg(FromNat(7))>>),
     Array(<<String(<<120>>), Error(<<97>>)>>),
     Array(<<String(<<120>>), Error(<<CR>>)>>),
     Array(<<Array(<<String(<<120>>)>>), Array(<<Error(<<LF>>)>>)>>)}

WritePooled == \E m \in PoolSamples : nwrites < MaxFrames /\ DoWrite(m)

NextPool == WritePooled

SpecPool == Init /\ [][NextPool]_vars

\* C11: every encode call that acquires a pooled buffer releases it before it
\* returns, on every exit path, the one where an element of an Array fails to
\* encode included; after any sequence of encode calls no buffer remains
\* checked out.
C11_BuffersReleased == wpool.acq = wpool.rel /\ checkedOut = 0

\* C12: encoding an Array acquires exactly one buffer from the pool for the
\* whole array: every element, at every depth, is written into that buffer,
\* and nothing more is acquired while the array's buffer is checked out.
C12_OneBufferPerArray ==
    (nwrites >= 1 /\ wmsg.t = "Array") => (wpool.acq = 1 /\ wpool.peak = 1)

----------------------------------------------------------------------------
(* The size estimate against the bytes written *)

EstSamples ==
    {IntMsg(v) : v \in IntSamples}
        \cup {String(s) : s \in ShortStrings}
        \cup {Absent, NilMsg, Error(<<>>), Error(<<97, 98>>), Error(<<CR>>),
              BulkString(<<98, CR>>), SimpleString(<<>>), SimpleString(<<79, 75>>),
              SimpleString(<<LF>>), String(Repeat(97, 10)), String(Repeat(97, 100))}
        \cup {Array(a) : a \in Seqs(Nest(MaxDepth - 1) \cup {NilMsg, String(<<120>>),
                                    IntMsg(MinInt64)}, MaxElems)}

WriteEst == \E m \in EstSamples : nwrites = 0 /\ DoWrite(m)

NextEst == WriteEst

SpecEst == Init /\ [][NextEst]_vars

\* C13: for every Nil, Integer (the minimum int64 included), Error, String,
\* BulkString, SimpleString and Array value the size estimate is at least the
\* number of bytes the encoder writes for it; for an Array it is 3 + the
\* digit count of the element count + the sum of the elements' estimates.
C13_EstimateCovers ==
    nwrites = 1 =>
        /\ west >= Len(sink) - Len(before)
        /\ wmsg.t = "Array" =>
               west = 3 + Len(Decimal(Len(wmsg.a))) + sumEstlen(wmsg.a)

----------------------------------------------------------------------------
(* Error frames: decoded, then encoded again *)

ErrorTexts == Seqs({97, CR, LF}, MaxStrLen)

\* a peer sends '-' text CRLF
InjectError == \E t \in ErrorTexts : sink = <<>> /\ Inject(<<45>> \o t \o crlf)

\* msg, err := r.Read(); if err == nil { rdx.Write(w, msg) }: the value just
\* decoded is written to the sink, after the bytes it was read from
WriteBack ==
    /\ phase = "read"
    /\ Len(reads) = 1
    /\ reads[1].err = "nil"
    /\ LET m == reads[1].msg
           r == Write(sinkKind, m, rev)
       IN  /\ phase' = "echo"
           /\ before' = sink
           /\ sink' = sink \o r.out
           /\ wmsg' = m
           /\ wn' = r.n
           /\ werr' = r.err
           /\ written' = IF r.err = "nil" THEN Append(written, m) ELSE written
           /\ checkedOut' = checkedOut + r.acq - r.rel
           /\ wpool' = [acq |-> r.acq, rel |-> r.rel, peak |-> r.peak]
           /\ west' = estlen(ensure(m))
           /\ nwrites' = nwrites + 1
           /\ UNCHANGED <<rev, sinkKind, src, opened, split, reads>>

NextEcho == InjectError \/ OpenWhole \/ ReadOne \/ WriteBack

SpecEcho == Init /\ [][NextEcho]_vars

\* C14: every Error that Read returns has a text without '\r' and without
\* '\n', so that encoding it succeeds and writes back the frame bytes that
\* were read.
C14_DecodedErrorClean ==
    (Len(reads) = 1 /\ reads[1].err = "nil" /\ reads[1].msg.t = "Error")
        => /\ ~ContainsCRLF(reads[1].msg.s)
           /\ phase = "echo" =>
                  /\ werr = "nil"
                  /\ sink = before \o Take(before, Len(before) - reads[1].left)

====
